---- MODULE Spec2Model ----
(***************************************************************************)
(* A model of the eventual value (src/eventual.go): one cell of type       *)
(* value[V], its mutex, its waiter channels, and a set of goroutines that  *)
(* call Set, SetExpiring, Reset, Get and GetOrSetExpiring on it            *)
(* concurrently while the wall clock advances; and of the map of eventual  *)
(* values (emap): its mutex, its cells by key, and goroutines that call    *)
(* its methods.                                                            *)
(***************************************************************************)
EXTENDS Integers, Sequences, FiniteSets, TLC

\* ------------------------------------------------------------- bounds
\* Number of goroutines calling into the cell.
NumProcs == 2
\* Total number of calls started over a run.
MaxOps == 2
\* Total number of calls started over a run of the deeper specification.
DeepOps == 3
\* Last instant of the wall clock (it starts at 1: time.Now() is never zero).
MaxTime == 2
\* Largest value of V passed by a caller (0 is V's zero value).
MaxVal == 1
\* Goroutines of the concurrent scenario (TestConcurrent): readers and setters.
NumReaders == 2
NumSetters == 2
\* Goroutines of the reset scenario (end of TestSingle) that call Reset.
NumResets == 2
\* Keys used by the callers of the map.
NumKeys == 2
\* Total number of calls started over a run on the map.
MapOps == 3

\* ------------------------------------------------- program constants
\* const tenYears = 10 * 365 * 24 * time.Hour, in clock units of one hour.
tenYears == 87600

\* var zeroValue V: never assigned, so it is V's zero value.
zeroValue == 0

\* time.Time{}: the zero time, for which IsZero() holds.
ZeroTime == 0

\* capacity of make(chan V, 1)
ChanCap == 1

Procs == 1..NumProcs
Values == 0..MaxVal
\* Expirations a caller can pass: the zero time and the instants of the run
\* (1 has passed from the start, MaxTime passes when the clock reaches it).
Times == 0..MaxTime

NoErr == "nil"
\* ctx.Err() of a cancelled context.
CtxErr == "context canceled"
\* The error a failing getter returns.
GetterErr == "getter error"

\* DontWait (cancelled in init), context.Background(), and a context that
\* its owner cancels or that times out
Ctxs == {"DontWait", "Background", "WithCancel"}

VARIABLES
    v,            \* value.v
    expiration,   \* value.expiration
    set,          \* value.set
    waiters,      \* value.waiters: sequence of channel ids
    defaultValue, \* value.defaultValue
    m,            \* value.m: 0 when free, else the goroutine holding it
    chans,        \* the channels made by Get: id -> record (buffer and history)
    now,          \* the wall clock read by time.Now()
    pc,           \* each goroutine's position
    op,           \* the method each goroutine is in
    loc,          \* each goroutine's locals
    env,          \* the callers: who calls what, with which arguments
    last,         \* history: the return made by the last step, if it made one
    hist,         \* history: the last committed mutation of the cell
    cnt,          \* history: counters of calls, getter invocations, first populations
    mmap,         \* emap.m: key -> its cell (0 when the key has none)
    mx,           \* emap.mx: 0 when free, else the goroutine holding it
    cells,        \* the cells made by getValue: id -> the fields of a value
    mproc,        \* each goroutine's position and locals in a call on the map
    mlast,        \* history: the return made by the last step on the map
    khist,        \* history: per key, its first cell and its last mutation
    mops          \* history: number of calls made on the map

\* the variables of the map
mapvars == <<mmap, mx, cells, mproc, mlast, khist, mops>>

vars == <<v, expiration, set, waiters, defaultValue, m, chans, now, pc, op, loc, env, last, hist, cnt,
          mapvars>>

NoLoc == [t |-> 0, ch |-> 0, ctx |-> "none", done |-> FALSE, dirty |-> FALSE, tnow |-> 0,
          snap |-> <<>>]
NoHist == [kind |-> "none", val |-> 0, t |-> 0, first |-> FALSE]
NoLast == [p |-> 0, name |-> "none", ctx |-> "none", via |-> "none", val |-> 0, err |-> NoErr,
           tnow |-> 0, dirty |-> FALSE, ch |-> 0, prev |-> NoHist, snap |-> <<>>]

\* no value committed yet after this channel was registered
NoVal == -1

\* ------------------------------------------------------ pure pieces

\* Mutant: the stored value is never used.
FreshNever(s, e, n) == FALSE

\* Mutant: the expiration is not looked at.
FreshIgnoringExpiration(s, e, n) == s

\* Mutant: !Before instead of After, so the instant of expiration is fresh.
FreshInclusive(s, e, n) == s /\ (e = ZeroTime \/ e >= n)

\* v.set && (v.expiration.IsZero() || v.expiration.After(time.Now()))
Fresh(s, e, n) == s /\ (e = ZeroTime \/ e > n)

\* time.Now().Add(tenYears)
SetExpirationArg(n) == n + tenYears

\* Mutant: every set is treated as the first one.
IsFirstSetAlways(s) == TRUE

\* Mutant: the test of v.set inverted.
IsFirstSetInverted(s) == s

\* if !v.set: the branch that notifies, clears, records the expiration
IsFirstSet(s) == ~s

\* Mutant: the waiters that were notified stay in the list.
KeptWaiters(ws) == ws

\* v.waiters = make([]chan V, 0)
ClearedWaiters(ws) == <<>>

\* v.expiration = t (first set only)
FirstExpiration(old, t) == t

\* waiter <- i on a channel of capacity one: possible when the buffer has room
CanSend(buf) == Len(buf) < ChanCap

\* Mutant: the waiters are sent the zero value.
SentZero(buf, i) == Append(buf, zeroValue)

\* waiter <- i: the value sent is the one being set
Sent(buf, i) == Append(buf, i)

\* Mutant: no mutual exclusion.
CanLockAlways(holder) == TRUE

\* m.Lock() succeeds when the mutex is free
CanLock(holder) == holder = 0

\* the ctx.Done() branch of Get's select
CancelOutcome(d, z) ==
    IF d # z THEN [via |-> "done", val |-> d, err |-> NoErr]
    ELSE [via |-> "done", val |-> d, err |-> CtxErr]

\* return _v, nil
FreshOutcome(cur) == [via |-> "fresh", val |-> cur, err |-> NoErr]

\* return v.zeroValue, err
GetterFailOutcome(z, e) == [via |-> "geterr", val |-> z, err |-> e]

\* Mutant: the value that came with the error is stored.
FailedValueStored(cur, i) == i

\* the getter failed: v.v keeps its value
FailedValue(cur, i) == cur

\* Mutant: Reset keeps the stored value.
ResetValueKept(cur, z) == cur

\* Reset: v.v = v.zeroValue
ResetValue(cur, z) == z

\* Mutant: Reset drops the parked waiters.
ResetWaitersCleared(ws) == <<>>

\* Reset does not assign v.waiters
ResetWaiters(ws) == ws

\* Mutant: Reset leaves the cell populated.
ResetSetTrue(s) == TRUE

\* Reset: v.set = false
ResetSet(s) == FALSE

\* make(chan V, 1), with the history of the channel
NewChan(unpopulated) ==
    [buf |-> <<>>, sent |-> 0, unset |-> unpopulated, commit |-> NoVal, reset |-> FALSE]

\* the for loop over v.waiters: the index of the first waiter whose buffer is
\* full (the send blocks there), or Len(ws) + 1 when every send goes through
RECURSIVE FirstBlocked(_, _, _)
FirstBlocked(ws, cs, k) ==
    IF k > Len(ws) THEN k
    ELSE IF CanSend(cs[ws[k]].buf) THEN FirstBlocked(ws, cs, k + 1)
    ELSE k

\* the channels after the sends to ws[1..k-1]
AfterSends(ws, cs, k, i) ==
    [c \in DOMAIN cs |->
        IF \E j \in 1..(k - 1) : ws[j] = c
        THEN [cs[c] EXCEPT !.buf = Sent(@, i), !.sent = @ + 1]
        ELSE cs[c]]

\* history: value i is the first one committed after the registration of
\* each channel that saw no commit yet (or none since the last Reset that
\* found it in the waiter list)
NoteCommit(cs, i) ==
    [c \in DOMAIN cs |-> IF cs[c].commit = NoVal THEN [cs[c] EXCEPT !.commit = i] ELSE cs[c]]

\* history: a Reset ran while these channels were in the waiter list; what
\* was committed before it belongs to the epoch that the Reset ended
NoteReset(ws, cs) ==
    [c \in DOMAIN cs |->
        IF \E j \in DOMAIN ws : ws[j] = c
        THEN [cs[c] EXCEPT !.reset = TRUE, !.commit = NoVal]
        ELSE cs[c]]

\* history: how many values each channel was sent
Sents(cs) == [c \in DOMAIN cs |-> cs[c].sent]

\* any goroutine calls any method with any argument, again and again
AnyCaller ==
    [getters |-> Procs, setters |-> Procs, others |-> Procs, ctxs |-> Ctxs, vals |-> Values,
     oneshot |-> FALSE, maxops |-> MaxOps]

Keys == 1..NumKeys

NoMapProc == [pc |-> "idle", op |-> "none", key |-> 0, cell |-> 0, ch |-> 0, ctx |-> "none",
              t |-> 0, tnow |-> 0, dirty |-> FALSE]
NoMapLast == [p |-> 0, op |-> "none", key |-> 0, ctx |-> "none", via |-> "none", val |-> 0,
              err |-> NoErr, cell |-> 0, dirty |-> FALSE]
NoKeyHist == [cell |-> 0, kind |-> "none", val |-> 0, first |-> FALSE]

\* NewMap(): an empty map, its mutex free, nobody calling
EmptyMap ==
    /\ mmap = [k \in Keys |-> 0]
    /\ mx = 0
    /\ cells = <<>>
    /\ mproc = [p \in Procs |-> NoMapProc]
    /\ mlast = NoMapLast
    /\ khist = [k \in Keys |-> NoKeyHist]
    /\ mops = 0

InitCell ==
    /\ v = zeroValue
    /\ expiration = ZeroTime
    /\ set = FALSE
    /\ waiters = <<>>
    /\ m = 0
    /\ chans = <<>>
    /\ now = 1
    /\ last = NoLast
    /\ hist = NoHist
    /\ cnt = [ops |-> 0, getters |-> 0, stale |-> 0, firsts |-> 0]
    /\ EmptyMap

\* NewValue / WithDefault(defaultValue)
Init ==
    /\ InitCell
    /\ defaultValue \in Values
    /\ env = AnyCaller
    /\ pc = [p \in Procs |-> "idle"]
    /\ op = [p \in Procs |-> "none"]
    /\ loc = [p \in Procs |-> NoLoc]

\* ------------------------------------------------------------ helpers

\* ctx.Done() is closed
CtxDone(p) == loc[p].ctx = "DontWait" \/ loc[p].done

\* the call of p returns r; the goroutine forgets its call
Return(p, r, tnow) ==
    /\ pc' = [pc EXCEPT ![p] = IF env.oneshot THEN "exit" ELSE "idle"]
    /\ op' = [op EXCEPT ![p] = "none"]
    /\ last' = [p |-> p, name |-> op[p], ctx |-> loc[p].ctx, via |-> r.via, val |-> r.val,
                err |-> r.err, tnow |-> tnow, dirty |-> loc[p].dirty, ch |-> loc[p].ch,
                prev |-> hist, snap |-> loc[p].snap]

\* history: p's call changed the cell; the Gets waiting in their select now
\* wait across a mutation
Mutated(p, i, t, first, l) ==
    /\ hist' = [kind |-> op[p], val |-> i, t |-> t, first |-> first]
    /\ loc' = [q \in DOMAIN loc |->
                IF q = p THEN l
                ELSE IF pc[q] = "select" THEN [loc[q] EXCEPT !.dirty = TRUE]
                ELSE loc[q]]

StartCall(p, name, t, ctx) ==
    /\ pc[p] = "idle"
    /\ cnt.ops < env.maxops
    /\ cnt' = [cnt EXCEPT !.ops = @ + 1]
    /\ op' = [op EXCEPT ![p] = name]
    /\ pc' = [pc EXCEPT ![p] = "lock"]
    /\ loc' = [loc EXCEPT ![p] = [NoLoc EXCEPT !.t = t, !.ctx = ctx]]
    /\ last' = NoLast
    /\ UNCHANGED <<v, expiration, set, waiters, defaultValue, m, chans, now, env, hist,
                 mapvars>>

SetOutcome(name, i) ==
    IF name = "GetOrSetExpiring"
    THEN [via |-> "getter", val |-> i, err |-> NoErr]
    ELSE [via |-> "void", val |-> zeroValue, err |-> NoErr]

\* doSetExpiring(i, t) with the lock held, then Unlock and return. The sends
\* go to buffered channels; a send to a full buffer blocks with the lock held.
\* g is 1 when i comes from the getter.
DoSetExpiring(p, i, t, g) ==
    LET k == FirstBlocked(waiters, chans, 1)
        tnow == IF g = 1 THEN loc[p].tnow ELSE now
        counted == [cnt EXCEPT !.getters = @ + g, !.stale = IF set THEN @ + g ELSE @]
    IN
    /\ v' = i
    /\ IF ~IsFirstSet(set)
       THEN /\ chans' = NoteCommit(chans, i)
            /\ m' = 0
            /\ Return(p, SetOutcome(op[p], i), tnow)
            /\ Mutated(p, i, t, FALSE, NoLoc)
            /\ cnt' = counted
            /\ UNCHANGED <<expiration, set, waiters>>
       ELSE IF k > Len(waiters)
       THEN /\ chans' = AfterSends(waiters, NoteCommit(chans, i), k, i)
            /\ waiters' = ClearedWaiters(waiters)
            /\ expiration' = FirstExpiration(expiration, t)
            /\ set' = TRUE
            /\ m' = 0
            /\ Return(p, SetOutcome(op[p], i), tnow)
            /\ Mutated(p, i, t, ~set, NoLoc)
            /\ cnt' = [counted EXCEPT !.firsts = IF set THEN @ ELSE @ + 1]
       ELSE /\ chans' = AfterSends(waiters, NoteCommit(chans, i), k, i)
            /\ m' = p
            /\ pc' = [pc EXCEPT ![p] = "sendblocked"]
            /\ cnt' = counted
            /\ last' = NoLast
            /\ UNCHANGED <<expiration, set, waiters, op, loc, hist>>
    /\ UNCHANGED <<defaultValue, now, env,
                 mapvars>>

\* ------------------------------------------------------------ actions

\* func (v *value[V]) Set(i V): the expiration is computed before the lock
CallSet(p) ==
    /\ p \in env.setters
    /\ StartCall(p, "Set", SetExpirationArg(now), "none")

CallSetExpiring(p) ==
    /\ p \in env.others
    /\ StartCall(p, "SetExpiring", 0, "none")

CallReset(p) ==
    /\ p \in env.others
    /\ StartCall(p, "Reset", 0, "none")

CallGet(p) ==
    /\ p \in env.getters
    /\ \E ctx \in env.ctxs : StartCall(p, "Get", 0, ctx)

CallGetOrSetExpiring(p) ==
    /\ p \in env.others
    /\ StartCall(p, "GetOrSetExpiring", 0, "none")

\* Set: Lock, doSetExpiring, Unlock
SetBody(p) ==
    /\ pc[p] = "lock"
    /\ op[p] = "Set"
    /\ CanLock(m)
    /\ \E i \in env.vals : DoSetExpiring(p, i, loc[p].t, 0)

\* SetExpiring: Lock, doSetExpiring, Unlock
SetExpiringBody(p) ==
    /\ pc[p] = "lock"
    /\ op[p] = "SetExpiring"
    /\ CanLock(m)
    /\ \E i \in env.vals, t \in Times : DoSetExpiring(p, i, t, 0)

\* Reset: Lock, clear, Unlock
ResetBody(p) ==
    /\ pc[p] = "lock"
    /\ op[p] = "Reset"
    /\ CanLock(m)
    /\ v' = ResetValue(v, zeroValue)
    /\ expiration' = ZeroTime
    /\ set' = ResetSet(set)
    /\ m' = 0
    /\ Return(p, [via |-> "void", val |-> zeroValue, err |-> NoErr], now)
    /\ Mutated(p, zeroValue, ZeroTime, FALSE, NoLoc)
    /\ waiters' = ResetWaiters(waiters)
    /\ chans' = NoteReset(waiters, chans)
    /\ UNCHANGED <<defaultValue, now, env, cnt,
                 mapvars>>

\* Get up to the select: Lock, then the fresh value and return, or a new
\* waiter; Unlock
GetBody(p) ==
    /\ pc[p] = "lock"
    /\ op[p] = "Get"
    /\ CanLock(m)
    /\ m' = 0
    /\ IF Fresh(set, expiration, now)
       THEN /\ Return(p, FreshOutcome(v), now)
            /\ loc' = [loc EXCEPT ![p] = NoLoc]
            /\ UNCHANGED <<waiters, chans>>
       ELSE /\ chans' = Append(chans, NewChan(~set))
            /\ waiters' = Append(waiters, Len(chans) + 1)
            /\ loc' = [loc EXCEPT ![p].ch = Len(chans) + 1, ![p].tnow = now]
            /\ pc' = [pc EXCEPT ![p] = "select"]
            /\ last' = NoLast
            /\ UNCHANGED op
    /\ UNCHANGED <<v, expiration, set, defaultValue, now, env, hist, cnt,
                 mapvars>>

\* case _v := <-waiter
SelectRecv(p) ==
    /\ pc[p] = "select"
    /\ chans[loc[p].ch].buf # <<>>
    /\ Return(p, [via |-> "recv", val |-> Head(chans[loc[p].ch].buf), err |-> NoErr],
              loc[p].tnow)
    /\ chans' = [chans EXCEPT ![loc[p].ch].buf = Tail(@)]
    /\ loc' = [loc EXCEPT ![p] = NoLoc]
    /\ UNCHANGED <<v, expiration, set, waiters, defaultValue, m, now, env, hist, cnt,
                 mapvars>>

\* case <-ctx.Done()
SelectDone(p) ==
    /\ pc[p] = "select"
    /\ CtxDone(p)
    /\ Return(p, CancelOutcome(defaultValue, zeroValue), loc[p].tnow)
    /\ loc' = [loc EXCEPT ![p] = NoLoc]
    /\ UNCHANGED <<v, expiration, set, waiters, defaultValue, m, chans, now, env, hist, cnt,
                 mapvars>>

\* the caller's cancel() or the context's deadline; the context is read only
\* by the select, so cancelling earlier is the same as cancelling there
Cancel(p) ==
    /\ pc[p] = "select"
    /\ loc[p].ctx = "WithCancel"
    /\ ~loc[p].done
    /\ loc' = [loc EXCEPT ![p].done = TRUE]
    /\ last' = NoLast
    /\ UNCHANGED <<v, expiration, set, waiters, defaultValue, m, chans, now, pc, op, env, hist, cnt,
                 mapvars>>

\* GetOrSetExpiring up to the getter: Lock, then the fresh value, Unlock and
\* return, or the call of the getter with the lock held
GetOrSetBody(p) ==
    /\ pc[p] = "lock"
    /\ op[p] = "GetOrSetExpiring"
    /\ CanLock(m)
    /\ IF Fresh(set, expiration, now)
       THEN /\ m' = 0
            /\ Return(p, FreshOutcome(v), now)
            /\ loc' = [loc EXCEPT ![p] = NoLoc]
       ELSE /\ m' = p
            /\ pc' = [pc EXCEPT ![p] = "getter"]
            /\ loc' = [loc EXCEPT ![p] = [NoLoc EXCEPT !.tnow = now,
                            !.snap = <<v, expiration, set, waiters, Sents(chans)>>]]
            /\ last' = NoLast
            /\ UNCHANGED op
    /\ UNCHANGED <<v, expiration, set, waiters, defaultValue, chans, now, env, hist, cnt,
                 mapvars>>

\* i, err := getter() comes back with an error: Unlock and return it
GetterFails(p) ==
    /\ pc[p] = "getter"
    /\ \E i \in env.vals : v' = FailedValue(v, i)
    /\ m' = 0
    /\ Return(p, GetterFailOutcome(zeroValue, GetterErr), loc[p].tnow)
    /\ loc' = [loc EXCEPT ![p] = NoLoc]
    /\ UNCHANGED <<expiration, set, waiters, defaultValue, chans, now, env, hist, cnt,
                 mapvars>>

\* i, err := getter() comes back with a value: doSetExpiring(i, t), Unlock
\* and return
GetterReturns(p) ==
    /\ pc[p] = "getter"
    /\ \E i \in env.vals, t \in Times : DoSetExpiring(p, i, t, 1)

\* the wall clock advances
Tick ==
    /\ now < MaxTime
    /\ now' = now + 1
    /\ last' = NoLast
    /\ UNCHANGED <<v, expiration, set, waiters, defaultValue, m, chans, pc, op, loc, env, hist, cnt,
                 mapvars>>

Next ==
    \/ \E p \in Procs :
        \/ CallSet(p)
        \/ CallSetExpiring(p)
        \/ CallReset(p)
        \/ CallGet(p)
        \/ CallGetOrSetExpiring(p)
        \/ SetBody(p)
        \/ SetExpiringBody(p)
        \/ ResetBody(p)
        \/ GetBody(p)
        \/ SelectRecv(p)
        \/ SelectDone(p)
        \/ Cancel(p)
        \/ GetOrSetBody(p)
        \/ GetterFails(p)
        \/ GetterReturns(p)
    \/ Tick

Spec == Init /\ [][Next]_vars

\* The same cell and callers, with one more call in a run.
InitDeep ==
    /\ InitCell
    /\ defaultValue \in Values
    /\ env = [AnyCaller EXCEPT !.maxops = DeepOps]
    /\ pc = [p \in Procs |-> "idle"]
    /\ op = [p \in Procs |-> "none"]
    /\ loc = [p \in Procs |-> NoLoc]

SpecDeep == InitDeep /\ [][Next]_vars

\* TestConcurrent: on a cell made by NewValue, NumReaders goroutines each
\* call Get(context.Background()) once and NumSetters goroutines each call
\* Set("some value") once.
Readers == 1..NumReaders
Setters == (NumReaders + 1)..(NumReaders + NumSetters)
SomeValue == 1

InitConcurrent ==
    /\ InitCell
    /\ defaultValue = zeroValue
    /\ env = [getters |-> Readers, setters |-> Setters, others |-> {}, ctxs |-> {"Background"},
              vals |-> {SomeValue}, oneshot |-> TRUE, maxops |-> NumReaders + NumSetters]
    /\ pc = [p \in Readers \cup Setters |-> "idle"]
    /\ op = [p \in Readers \cup Setters |-> "none"]
    /\ loc = [p \in Readers \cup Setters |-> NoLoc]

NextConcurrent ==
    \E p \in Readers \cup Setters :
        \/ CallGet(p)
        \/ CallSet(p)
        \/ GetBody(p)
        \/ SetBody(p)
        \/ SelectRecv(p)

\* Every goroutine is scheduled again and again, and sync.Mutex hands the
\* lock to a waiting goroutine when it is free.
FairConcurrent ==
    \A p \in Readers \cup Setters :
        WF_vars(CallGet(p) \/ CallSet(p) \/ GetBody(p) \/ SetBody(p) \/ SelectRecv(p))

SpecConcurrent == InitConcurrent /\ [][NextConcurrent]_vars /\ FairConcurrent

\* The end of TestSingle, with goroutines in place of its sequence: on a cell
\* made by NewValue, NumReaders goroutines each call Get(context.Background())
\* once, NumResets goroutines each call Reset once and one goroutine calls
\* Set once, in any order.
Resetters == (NumReaders + 1)..(NumReaders + NumResets)
LateSetter == NumReaders + NumResets + 1
ResetProcs == Readers \cup Resetters \cup {LateSetter}

InitReset ==
    /\ InitCell
    /\ defaultValue = zeroValue
    /\ env = [getters |-> Readers, setters |-> {LateSetter}, others |-> Resetters,
              ctxs |-> {"Background"}, vals |-> {SomeValue}, oneshot |-> TRUE,
              maxops |-> NumReaders + NumResets + 1]
    /\ pc = [p \in ResetProcs |-> "idle"]
    /\ op = [p \in ResetProcs |-> "none"]
    /\ loc = [p \in ResetProcs |-> NoLoc]

NextReset ==
    \E p \in ResetProcs :
        \/ CallGet(p)
        \/ CallSet(p)
        \/ CallReset(p)
        \/ GetBody(p)
        \/ SetBody(p)
        \/ ResetBody(p)
        \/ SelectRecv(p)

\* Every goroutine is scheduled again and again.
FairReset ==
    \A p \in ResetProcs :
        WF_vars(CallGet(p) \/ CallSet(p) \/ CallReset(p) \/ GetBody(p) \/ SetBody(p)
                    \/ ResetBody(p) \/ SelectRecv(p))

SpecReset == InitReset /\ [][NextReset]_vars /\ FairReset

\* ------------------------------------------- the map (emap, part_000)

\* the variables of the single cell
cellvars == <<v, expiration, set, waiters, defaultValue, m, chans, now, pc, op, loc, env, last,
              hist, cnt>>

\* the methods of Map
MapMethods == {"Set", "SetExpiring", "Reset", "Get", "GetOrSetExpiring"}

\* NewValue[V](): the fields of a new cell (no default), with the buffers of
\* the channels its Gets will make
NewCell ==
    [v |-> zeroValue, expiration |-> ZeroTime, set |-> FALSE, m |-> 0, waiters |-> <<>>,
     bufs |-> <<>>]

\* Mutant: the key is never found.
LookupMiss(mp, k) == 0

\* result := m.m[key]
Lookup(mp, k) == mp[k]

\* Mutant: mx stays locked when getValue has returned.
MxKept(p) == p

\* defer m.mx.Unlock(): mx is free when getValue has returned
MxAfterGetValue(p) == 0

\* every send of the notify loop of doSetExpiring finds room in its buffer
CellCanNotify(c) ==
    IsFirstSet(c.set) => \A j \in DOMAIN c.waiters : CanSend(c.bufs[c.waiters[j]])

\* doSetExpiring(i, t) on the cell with fields c
CellSetExpiring(c, i, t) ==
    IF ~IsFirstSet(c.set)
    THEN [c EXCEPT !.v = i]
    ELSE [c EXCEPT !.v = i,
                   !.bufs = [b \in DOMAIN c.bufs |->
                                IF \E j \in DOMAIN c.waiters : c.waiters[j] = b
                                THEN Sent(c.bufs[b], i)
                                ELSE c.bufs[b]],
                   !.waiters = ClearedWaiters(@),
                   !.expiration = FirstExpiration(@, t),
                   !.set = TRUE]

\* the assignments of Reset on the cell with fields c
CellReset(c) ==
    [c EXCEPT !.v = ResetValue(@, zeroValue),
              !.expiration = ZeroTime,
              !.set = ResetSet(@),
              !.waiters = ResetWaiters(@)]

\* p's call on the map returns r; history: when it changed its cell (mut),
\* the Gets waiting in their select on that cell now wait across a mutation
MapReturn(p, r, mut) ==
    /\ mproc' = [q \in DOMAIN mproc |->
                    IF q = p THEN NoMapProc
                    ELSE IF mut /\ mproc[q].pc = "select" /\ mproc[q].cell = mproc[p].cell
                    THEN [mproc[q] EXCEPT !.dirty = TRUE]
                    ELSE mproc[q]]
    /\ mlast' = [p |-> p, op |-> mproc[p].op, key |-> mproc[p].key, ctx |-> mproc[p].ctx,
                 via |-> r.via, val |-> r.val, err |-> r.err, cell |-> mproc[p].cell,
                 dirty |-> mproc[p].dirty]

\* history: p's call committed value i through its key
KeyMutated(p, i, first) ==
    khist' = [khist EXCEPT ![mproc[p].key] =
                [@ EXCEPT !.kind = mproc[p].op, !.val = i, !.first = first]]

\* a goroutine calls a method of the map with a key
MapCall(p) ==
    /\ mproc[p].pc = "idle"
    /\ mops < MapOps
    /\ \E o \in MapMethods, k \in Keys :
         \E ctx \in (IF o = "Get" THEN {"DontWait", "Background"} ELSE {"none"}) :
            mproc' = [mproc EXCEPT ![p] =
                        [NoMapProc EXCEPT !.pc = "getValue", !.op = o, !.key = k, !.ctx = ctx]]
    /\ mops' = mops + 1
    /\ mlast' = NoMapLast
    /\ UNCHANGED <<mmap, mx, cells, khist>>
    /\ UNCHANGED cellvars

\* getValue(key): Lock, find the cell of the key or make it, Unlock. Set then
\* reads time.Now() for its expiration.
GetValue(p) ==
    LET k == mproc[p].key
        result == Lookup(mmap, k)
        t == IF mproc[p].op = "Set" THEN SetExpirationArg(now) ELSE 0
    IN
    /\ mproc[p].pc = "getValue"
    /\ CanLock(mx)
    /\ IF result = 0
       THEN /\ cells' = Append(cells, NewCell)
            /\ mmap' = [mmap EXCEPT ![k] = Len(cells) + 1]
            /\ mproc' = [mproc EXCEPT ![p].pc = "lock", ![p].cell = Len(cells) + 1, ![p].t = t]
            /\ khist' = [khist EXCEPT ![k].cell = IF @ = 0 THEN Len(cells) + 1 ELSE @]
       ELSE /\ mproc' = [mproc EXCEPT ![p].pc = "lock", ![p].cell = result, ![p].t = t]
            /\ UNCHANGED <<cells, mmap, khist>>
    /\ mx' = MxAfterGetValue(p)
    /\ mlast' = NoMapLast
    /\ UNCHANGED mops
    /\ UNCHANGED cellvars

\* Set and SetExpiring on the cell of the key: Lock, doSetExpiring, Unlock
MapSetExpiring(p) ==
    LET c == mproc[p].cell IN
    /\ mproc[p].pc = "lock"
    /\ mproc[p].op \in {"Set", "SetExpiring"}
    /\ CanLock(cells[c].m)
    /\ CellCanNotify(cells[c])
    /\ \E i \in Values, t \in (IF mproc[p].op = "Set" THEN {mproc[p].t} ELSE Times) :
          /\ cells' = [cells EXCEPT ![c] = CellSetExpiring(@, i, t)]
          /\ KeyMutated(p, i, ~cells[c].set)
    /\ MapReturn(p, [via |-> "void", val |-> zeroValue, err |-> NoErr], TRUE)
    /\ UNCHANGED <<mmap, mx, mops>>
    /\ UNCHANGED cellvars

\* Reset on the cell of the key
MapReset(p) ==
    LET c == mproc[p].cell IN
    /\ mproc[p].pc = "lock"
    /\ mproc[p].op = "Reset"
    /\ CanLock(cells[c].m)
    /\ cells' = [cells EXCEPT ![c] = CellReset(@)]
    /\ KeyMutated(p, zeroValue, FALSE)
    /\ MapReturn(p, [via |-> "void", val |-> zeroValue, err |-> NoErr], TRUE)
    /\ UNCHANGED <<mmap, mx, mops>>
    /\ UNCHANGED cellvars

\* Get on the cell of the key, up to the select
MapGet(p) ==
    LET c == mproc[p].cell IN
    /\ mproc[p].pc = "lock"
    /\ mproc[p].op = "Get"
    /\ CanLock(cells[c].m)
    /\ IF Fresh(cells[c].set, cells[c].expiration, now)
       THEN /\ MapReturn(p, FreshOutcome(cells[c].v), FALSE)
            /\ UNCHANGED cells
       ELSE /\ cells' = [cells EXCEPT ![c].bufs = Append(@, <<>>),
                                      ![c].waiters = Append(@, Len(cells[c].bufs) + 1)]
            /\ mproc' = [mproc EXCEPT ![p].pc = "select", ![p].ch = Len(cells[c].bufs) + 1,
                                      ![p].tnow = now]
            /\ mlast' = NoMapLast
    /\ UNCHANGED <<mmap, mx, khist, mops>>
    /\ UNCHANGED cellvars

\* case _v := <-waiter
MapRecv(p) ==
    LET c == mproc[p].cell IN
    /\ mproc[p].pc = "select"
    /\ cells[c].bufs[mproc[p].ch] # <<>>
    /\ MapReturn(p, [via |-> "recv", val |-> Head(cells[c].bufs[mproc[p].ch]), err |-> NoErr],
                 FALSE)
    /\ cells' = [cells EXCEPT ![c].bufs[mproc[p].ch] = Tail(@)]
    /\ UNCHANGED <<mmap, mx, khist, mops>>
    /\ UNCHANGED cellvars

\* case <-ctx.Done(), on a cell made by NewValue
MapDone(p) ==
    /\ mproc[p].pc = "select"
    /\ mproc[p].ctx = "DontWait"
    /\ MapReturn(p, CancelOutcome(zeroValue, zeroValue), FALSE)
    /\ UNCHANGED <<mmap, mx, cells, khist, mops>>
    /\ UNCHANGED cellvars

\* GetOrSetExpiring on the cell of the key, up to the getter
MapGetOrSetExpiring(p) ==
    LET c == mproc[p].cell IN
    /\ mproc[p].pc = "lock"
    /\ mproc[p].op = "GetOrSetExpiring"
    /\ CanLock(cells[c].m)
    /\ IF Fresh(cells[c].set, cells[c].expiration, now)
       THEN /\ MapReturn(p, FreshOutcome(cells[c].v), FALSE)
            /\ UNCHANGED cells
       ELSE /\ cells' = [cells EXCEPT ![c].m = p]
            /\ mproc' = [mproc EXCEPT ![p].pc = "getter"]
            /\ mlast' = NoMapLast
    /\ UNCHANGED <<mmap, mx, khist, mops>>
    /\ UNCHANGED cellvars

\* the getter comes back with an error
MapGetterFails(p) ==
    LET c == mproc[p].cell IN
    /\ mproc[p].pc = "getter"
    /\ cells' = [cells EXCEPT ![c].m = 0]
    /\ MapReturn(p, GetterFailOutcome(zeroValue, GetterErr), FALSE)
    /\ UNCHANGED <<mmap, mx, khist, mops>>
    /\ UNCHANGED cellvars

\* the getter comes back with a value
MapGetterReturns(p) ==
    LET c == mproc[p].cell IN
    /\ mproc[p].pc = "getter"
    /\ CellCanNotify(cells[c])
    /\ \E i \in Values, t \in Times :
          /\ cells' = [cells EXCEPT ![c] = [CellSetExpiring(@, i, t) EXCEPT !.m = 0]]
          /\ KeyMutated(p, i, ~cells[c].set)
          /\ MapReturn(p, SetOutcome("GetOrSetExpiring", i), TRUE)
    /\ UNCHANGED <<mmap, mx, mops>>
    /\ UNCHANGED cellvars

\* NewMap(), and goroutines that call its methods
InitMap ==
    /\ InitCell
    /\ defaultValue = zeroValue
    /\ env = AnyCaller
    /\ pc = [p \in Procs |-> "idle"]
    /\ op = [p \in Procs |-> "none"]
    /\ loc = [p \in Procs |-> NoLoc]

NextMap ==
    \/ \E p \in Procs :
        \/ MapCall(p)
        \/ GetValue(p)
        \/ MapSetExpiring(p)
        \/ MapReset(p)
        \/ MapGet(p)
        \/ MapRecv(p)
        \/ MapDone(p)
        \/ MapGetOrSetExpiring(p)
        \/ MapGetterFails(p)
        \/ MapGetterReturns(p)
    \/ Tick

SpecMap == InitMap /\ [][NextMap]_vars

\* ------------------------------------------------------------- claims

AllProcs == DOMAIN pc

\* what the cancellation branch must return for this cell
IsCancelOutcome(r) ==
    IF defaultValue # zeroValue
    THEN r.val = defaultValue /\ r.err = NoErr
    ELSE r.val = zeroValue /\ r.err = CtxErr

C2_AllReadersGetTheValue ==
    /\ [](last.name = "Get" => (last.val = SomeValue /\ last.err = NoErr))
    /\ <>(\A p \in Readers \cup Setters : pc[p] = "exit")

\* C2 witness: all have returned, one reader having waited for the delivery
\* and another having found the value when it took the lock.
C2_Witness ==
    /\ \A p \in Readers \cup Setters : pc[p] = "exit"
    /\ Len(chans) >= 1
    /\ Len(chans) < NumReaders
    /\ \A c \in DOMAIN chans : chans[c].sent = 1 /\ chans[c].buf = <<>>

\* C3 (the claim as stated): while the last mutation of the cell is a Set(v),
\* no Get registers a waiter, and a Get returns (v, nil).
C3_GetAfterSetReturnsIt ==
    hist.kind = "Set" =>
        /\ \A p \in AllProcs : pc[p] = "select" => loc[p].dirty
        /\ (last.name = "Get" /\ ~last.dirty) =>
              (last.via = "fresh" /\ last.val = hist.val /\ last.err = NoErr)

\* C4 (the claim as stated): a GetOrSetExpiring that follows, before the
\* expiration it passed, a GetOrSetExpiring whose getter succeeded on a
\* populated cell with an expired value does not invoke its getter.
C4_SecondCallSkipsGetter ==
    ~ /\ last.name = "GetOrSetExpiring"
      /\ last.via \in {"getter", "geterr"}
      /\ last.prev.kind = "GetOrSetExpiring"
      /\ ~last.prev.first
      /\ last.prev.t > last.tnow

\* C5: a GetOrSetExpiring whose getter failed returns the zero value and the
\* getter's error, has released the lock, and leaves value, expiration,
\* populated flag and waiter list as they were when it took the lock; no
\* channel was sent anything.
C5_FailedGetterChangesNothing ==
    last.via = "geterr" =>
        /\ last.name = "GetOrSetExpiring"
        /\ last.val = zeroValue
        /\ last.err = GetterErr
        /\ last.snap = <<v, expiration, set, waiters, Sents(chans)>>
        /\ m = 0

\* C5 witness: the getter failed while a waiter was parked on a cell that is
\* still unpopulated.
C5_Witness ==
    /\ last.via = "geterr"
    /\ ~set
    /\ Len(waiters) > 0

\* C6: while a getter runs, its caller holds the lock, no other getter runs,
\* every other caller that waits for the lock keeps waiting, and the cell
\* changes only by the step that ends the getter.
C6_SingleFlight ==
    [][\A p \in AllProcs : pc[p] = "getter" =>
          /\ m = p
          /\ \A q \in AllProcs \ {p} :
                /\ pc[q] # "getter"
                /\ pc[q] = "lock" => pc'[q] = "lock"
          /\ pc'[p] = "getter" => UNCHANGED <<v, expiration, set, waiters, m>>]_vars

\* C6 witness: a getter runs while another GetOrSetExpiring waits for the lock.
C6_Witness ==
    \E p, q \in AllProcs :
        /\ pc[p] = "getter"
        /\ pc[q] = "lock"
        /\ op[q] = "GetOrSetExpiring"

\* C7 (the claim as stated): the getter invocations that succeeded never
\* outnumber the first populations.
C7_GettersAtMostFirsts == cnt.getters <= cnt.firsts

\* C7 (amended): the successful getter invocations made on an unpopulated cell
\* never outnumber the first populations, and a getter is invoked only when
\* the cell was unpopulated or its expiration had passed when the call took
\* the lock.
C7_UnpopulatedGettersAtMostFirsts ==
    /\ cnt.getters - cnt.stale <= cnt.firsts
    /\ last.via \in {"getter", "geterr"} =>
          ~(last.snap[3] /\ (last.snap[2] = ZeroTime \/ last.snap[2] > last.tnow))

\* C7 witness: a getter ran on a populated cell whose value had expired, so
\* the invocations outnumber the first populations.
C7_Witness ==
    /\ last.via = "getter"
    /\ cnt.stale > 0
    /\ cnt.getters > cnt.firsts

C9_DefaultOnlyOnCancel ==
    /\ last.via = "done" => (last.name = "Get" /\ IsCancelOutcome(last))
    /\ (last.name = "Get" /\ ~last.dirty /\ hist.kind = "Set") =>
          (last.via # "done" /\ last.val = hist.val /\ last.err = NoErr)

\* C10: while the last mutation is a first population by SetExpiring(v, t):
\* the cell stays populated; a Get registers a waiter only at or after t, t
\* not being the zero time; and a Get with DontWait returns (v, nil) when it
\* took the lock before t or t is the zero time, and the cancellation outcome
\* otherwise.
C10_ExpiresAtItsInstant ==
    (hist.kind = "SetExpiring" /\ hist.first) =>
        /\ set
        /\ \A p \in AllProcs :
              (pc[p] = "select" /\ ~loc[p].dirty) =>
                  (hist.t # ZeroTime /\ loc[p].tnow >= hist.t)
        /\ (last.name = "Get" /\ last.ctx = "DontWait" /\ ~last.dirty) =>
              IF hist.t = ZeroTime \/ last.tnow < hist.t
              THEN last.via = "fresh" /\ last.val = hist.val /\ last.err = NoErr
              ELSE last.via = "done" /\ IsCancelOutcome(last)

\* C10 witness: the value set by SetExpiring was returned before its
\* expiration, which was an instant of the run.
C10_Witness ==
    /\ hist.kind = "SetExpiring"
    /\ hist.first
    /\ hist.t # ZeroTime
    /\ last.name = "Get"
    /\ last.ctx = "DontWait"
    /\ last.via = "fresh"
    /\ last.tnow < hist.t

\* C10 witness of the other side: the Get took the lock at the very instant
\* of the expiration and returned the cancellation outcome.
C10_WitnessExpired ==
    /\ hist.kind = "SetExpiring"
    /\ hist.first
    /\ last.name = "Get"
    /\ last.ctx = "DontWait"
    /\ ~last.dirty
    /\ last.via = "done"
    /\ last.tnow = hist.t

\* C11: a Reset step leaves the cell with the zero value, the zero expiration
\* and not populated, changes neither the waiter list nor the number of
\* channels, and sends nothing on any channel;
\* and while a Reset is the last mutation of the cell, a Get with DontWait that
\* took the lock after it returns the cancellation outcome.
C11_ResetRestoresNewCell ==
    /\ [][\A p \in AllProcs :
            (op[p] = "Reset" /\ pc[p] = "lock" /\ op'[p] = "none") =>
                /\ v' = zeroValue
                /\ expiration' = ZeroTime
                /\ set' = FALSE
                /\ waiters' = waiters
                /\ Len(chans') = Len(chans)
                /\ \A c \in DOMAIN chans :
                      chans'[c].buf = chans[c].buf /\ chans'[c].sent = chans[c].sent]_vars
    /\ []((hist.kind = "Reset" /\ last.name = "Get" /\ last.ctx = "DontWait" /\ ~last.dirty) =>
            (last.via = "done" /\ IsCancelOutcome(last)))

\* C11 witness: the cell was populated, then reset, and the Get with DontWait
\* that followed returned the cancellation outcome.
C11_Witness ==
    /\ cnt.firsts > 0
    /\ hist.kind = "Reset"
    /\ last.name = "Get"
    /\ last.ctx = "DontWait"
    /\ ~last.dirty
    /\ last.via = "done"

\* C12: in the reset scenario every Get returns the value set, with no error,
\* and a reader parked while the Set is still to come eventually returns,
\* however many Resets run while it is parked.
C12_ParkedAcrossResets ==
    /\ [](last.name = "Get" => (last.via \in {"recv", "fresh"} /\ last.val = SomeValue
                                    /\ last.err = NoErr))
    /\ \A r \in Readers :
          (pc[r] = "select" /\ pc[LateSetter] # "exit") ~> (pc[r] = "exit")

\* C12 witness: a reader that was parked while a Reset ran returned the value
\* delivered by the Set that followed, after every Reset had run.
C12_Witness ==
    /\ last.name = "Get"
    /\ last.via = "recv"
    /\ chans[last.ch].reset
    /\ last.val = SomeValue
    /\ \A p \in Resetters : pc[p] = "exit"

C16_SendsNeverBlock ==
    /\ \A c \in DOMAIN chans : Len(chans[c].buf) <= ChanCap
    /\ \A j \in DOMAIN waiters : chans[waiters[j]].buf = <<>>
    /\ \A j, k \in DOMAIN waiters : waiters[j] = waiters[k] => j = k
    /\ FirstBlocked(waiters, chans, 1) = Len(waiters) + 1
    /\ \A p \in AllProcs :
          /\ pc[p] # "sendblocked"
          /\ m = p => pc[p] = "getter"
          /\ (pc[p] = "lock" /\ op[p] = "Set" /\ m = 0) => ENABLED SetBody(p)
          /\ (pc[p] = "lock" /\ op[p] = "SetExpiring" /\ m = 0) => ENABLED SetExpiringBody(p)
          /\ pc[p] = "getter" => ENABLED GetterReturns(p)

\* C16 witness: a first population sent its value to the channel of a Get
\* that had already returned by cancellation; nobody will receive it, and the
\* setter has returned.
C16_Witness ==
    /\ last.via \in {"void", "getter"}
    /\ hist.first
    /\ m = 0
    /\ \E c \in DOMAIN chans :
          /\ chans[c].buf # <<>>
          /\ \A p \in AllProcs : ~(pc[p] = "select" /\ loc[p].ch = c)

\* C17 (the claim as stated): every entry of the waiter list is the channel of
\* a Get that is waiting in its select, and the list is no longer than the
\* number of Get calls in progress.
C17_NoLeakedWaiters ==
    /\ \A j \in DOMAIN waiters :
          \E p \in AllProcs : pc[p] = "select" /\ loc[p].ch = waiters[j]
    /\ Len(waiters) <= Cardinality({p \in AllProcs : op[p] = "Get"})

\* C18: whenever the cell is populated and its expiration is the zero time
\* or lies after the clock, the waiter list is empty.
C18_FreshHasNoWaiters ==
    (set /\ (expiration = ZeroTime \/ expiration > now)) => waiters = <<>>

\* C18 witness: the cell is fresh after a first population that cleared from
\* the waiter list the channel of a Get that had returned by cancellation.
C18_Witness ==
    /\ set
    /\ expiration = ZeroTime \/ expiration > now
    /\ hist.first
    /\ waiters = <<>>
    /\ last.via \in {"void", "getter"}
    /\ \E c \in DOMAIN chans :
          /\ chans[c].sent = 1
          /\ chans[c].buf # <<>>
          /\ \A p \in AllProcs : loc[p].ch # c

\* C20: on a cell without a default, a Get or GetOrSetExpiring that returns
\* with no error returns a value that a Set, a SetExpiring or a successful
\* getter committed: the value of the last mutation, which is not a Reset,
\* when it found the cell fresh or ran its getter, and the value committed by
\* the population that sent it when it received from its channel.
C20_NoValueOutOfThinAir ==
    (/\ defaultValue = zeroValue
     /\ last.name \in {"Get", "GetOrSetExpiring"}
     /\ last.err = NoErr) =>
        \/ /\ last.via \in {"fresh", "getter"}
           /\ hist.kind \in {"Set", "SetExpiring", "GetOrSetExpiring"}
           /\ last.via = "getter" => hist.kind = "GetOrSetExpiring"
           /\ last.val = hist.val
        \/ /\ last.via = "recv"
           /\ chans[last.ch].sent = 1
           /\ chans[last.ch].commit # NoVal
           /\ last.val = chans[last.ch].commit

\* C20 witness: on a cell without a default a Get returned the zero value
\* with no error, because the zero value is what had been set.
C20_Witness ==
    /\ defaultValue = zeroValue
    /\ last.name = "Get"
    /\ last.via = "fresh"
    /\ last.err = NoErr
    /\ last.val = zeroValue
    /\ hist.kind \in {"Set", "SetExpiring"}
    /\ hist.val = zeroValue

\* C13 (the claim as stated): one cell per referenced key, as in the
\* structure below, and a Get that took the lock after a Set on its key, with
\* no mutation of that key since, returns the value of that Set.
C13_KeysReturnTheirValues ==
    /\ \A k \in Keys : mmap[k] = khist[k].cell
    /\ Len(cells) = Cardinality({k \in Keys : mmap[k] # 0})
    /\ (mlast.op = "Get" /\ mlast.ctx = "DontWait" /\ khist[mlast.key].kind = "none") =>
          (mlast.via = "done" /\ mlast.val = zeroValue /\ mlast.err = CtxErr)
    /\ (mlast.op = "Get" /\ ~mlast.dirty /\ khist[mlast.key].kind = "Set") =>
          (mlast.via = "fresh" /\ mlast.val = khist[mlast.key].val /\ mlast.err = NoErr)

\* C13 (structure): the cell of a key is the first cell made for it and is never replaced
\* or removed; distinct keys have distinct cells and there are no other
\* cells; every call past getValue works on the cell of its key; the value
\* stored in the cell of a key is the one last committed through that key;
\* and a Get with DontWait on a key that was never set returns the zero value
\* with the context's error, while a Get that finds its key's value fresh
\* returns the value last set through that key.
C13_OneCellPerKey ==
    /\ \A k \in Keys : mmap[k] = khist[k].cell
    /\ \A k1, k2 \in Keys : (mmap[k1] # 0 /\ mmap[k1] = mmap[k2]) => k1 = k2
    /\ Len(cells) = Cardinality({k \in Keys : mmap[k] # 0})
    /\ \A p \in Procs :
          mproc[p].pc \in {"lock", "select", "getter"} =>
              (mproc[p].cell # 0 /\ mproc[p].cell = mmap[mproc[p].key])
    /\ \A k \in Keys :
          mmap[k] # 0 =>
              cells[mmap[k]].v = (IF khist[k].kind = "none" THEN zeroValue ELSE khist[k].val)
    /\ mlast.via # "none" => mlast.cell = mmap[mlast.key]
    /\ (mlast.op = "Get" /\ mlast.ctx = "DontWait" /\ khist[mlast.key].kind = "none") =>
          (mlast.via = "done" /\ mlast.val = zeroValue /\ mlast.err = CtxErr)
    /\ mlast.via = "fresh" =>
          /\ khist[mlast.key].kind \in {"Set", "SetExpiring", "GetOrSetExpiring"}
          /\ mlast.val = khist[mlast.key].val
          /\ mlast.err = NoErr

\* C13 witness: two keys were set to different values, and a Get with
\* DontWait on one of them returned its own value.
C13_Witness ==
    /\ mlast.op = "Get"
    /\ mlast.ctx = "DontWait"
    /\ mlast.via = "fresh"
    /\ \E k \in Keys :
          /\ k # mlast.key
          /\ khist[k].kind = "Set"
          /\ khist[k].val # mlast.val

\* C19: the map's lock is free whenever no goroutine is inside getValue, so a
\* pending getValue can always run; a cell's lock is held only by a goroutine
\* running its getter on the cell of its own key; and a call that has its
\* cell can run whenever no getter is running on its key, whatever getters
\* run and whatever Gets are parked on other keys.
C19_MapLockOnlyInGetValue ==
    /\ mx = 0
    /\ \A p \in Procs : mproc[p].pc = "getValue" => ENABLED GetValue(p)
    /\ \A c \in DOMAIN cells :
          cells[c].m # 0 =>
              /\ mproc[cells[c].m].pc = "getter"
              /\ mproc[cells[c].m].cell = c
              /\ mmap[mproc[cells[c].m].key] = c
    /\ \A q \in Procs :
          (/\ mproc[q].pc = "lock"
           /\ \A r \in Procs : mproc[r].pc = "getter" => mproc[r].key # mproc[q].key) =>
              ENABLED (MapSetExpiring(q) \/ MapReset(q) \/ MapGet(q) \/ MapGetOrSetExpiring(q))

\* C19 witness: while a getter is running on one key, a call on another key
\* has returned.
C19_Witness ==
    \E p \in Procs :
        /\ mproc[p].pc = "getter"
        /\ mlast.via # "none"
        /\ mlast.p # p
        /\ mlast.key # mproc[p].key

====
